---- MODULE Spec2Model ----
(***************************************************************************)
(* A model of the panel-construction pipeline (align_time_series_fast,     *)
(* GroupMinMaxScaler, pivot_features_and_costs) and of the Gurobi-backed   *)
(* decision model (optGrbModel) of my-PyEPO.                               *)
(*                                                                         *)
(* Conventions.                                                            *)
(*  - A table (DataFrame) is a sequence of rows in input order.            *)
(*  - A cell is <<v>> (a number) or <<>> (missing, NaN).                   *)
(*  - Timestamps and symbols are integer codes; their integer order is the *)
(*    order pandas sorts them in.  pd.to_datetime is the order-preserving  *)
(*    coercion onto these codes.                                           *)
(*  - A float of the scaler is <<n, d>>: the rational n/d for d > 0, and   *)
(*    the IEEE specials <<1,0>> (+inf), <<-1,0>> (-inf), <<0,0>> (NaN).    *)
(***************************************************************************)
EXTENDS Integers, Sequences, FiniteSets, TLC

VARIABLES
    alignDf,     \* align_time_series_fast: the caller's table
    alignRes,    \* align_time_series_fast: what the last call returned/raised
    scaler,      \* GroupMinMaxScaler: the object's fields
    scalerHist,  \* history: the statistics and groups of the last fit
    xformIn,     \* GroupMinMaxScaler.transform: the caller's table after the call
    xformArg,    \* history: the table the caller passed to transform
    xformOut,    \* GroupMinMaxScaler.transform: the returned table
    pivotDf,     \* pivot_features_and_costs: the caller's table
    pivotRes,    \* pivot_features_and_costs: what the last call returned/raised
    objs,        \* optGrbModel instances: oid -> fields (model, x)
    sessions,    \* Gurobi models: sid -> variables, constraints, objective
    solved,      \* history: oid -> the result of the object's last solve
    parent       \* history: oid -> the object it was cloned from (0: built)

vars == <<alignDf, alignRes, scaler, scalerHist, xformIn, xformArg, xformOut,
          pivotDf, pivotRes, objs, sessions, solved, parent>>

alignVars  == <<alignDf, alignRes>>
scalerVars == <<scaler, scalerHist, xformIn, xformArg, xformOut>>
pivotVars  == <<pivotDf, pivotRes>>
modelVars  == <<objs, sessions, solved, parent>>

----------------------------------------------------------------------------
(* Bounds of the model.                                                    *)

NumTimes == 3
NumSymbols == 2
MaxValue == 2
MaxAlignRows == 3

Times == 1..NumTimes
Symbols == 1..NumSymbols
NaN == <<>>
Cells == {NaN} \cup {<<v>> : v \in 1..MaxValue}

----------------------------------------------------------------------------
(* Helpers shared by the pandas operations.                                *)

Range(s) == {s[i] : i \in DOMAIN s}

Min(S) == CHOOSE x \in S : \A y \in S : x <= y
Max(S) == CHOOSE x \in S : \A y \in S : x >= y

\* A set of integers as the increasing sequence (sort_index, sort_values).
RECURSIVE SortedSeq(_)
SortedSeq(S) == IF S = {} THEN <<>> ELSE <<Min(S)>> \o SortedSeq(S \ {Min(S)})

\* Series.unique(): the distinct values in order of first appearance.
RECURSIVE unique(_)
unique(s) ==
    IF s = <<>> THEN <<>>
    ELSE LET front == unique(SubSeq(s, 1, Len(s) - 1))
             last  == s[Len(s)]
         IN IF last \in Range(front) THEN front ELSE Append(front, last)

Column(df, c) == [i \in DOMAIN df |-> df[i][c]]

\* The (open_time, symbol) keys of a table hold a repeated key.
HasDuplicateKeys(df) ==
    \E i, j \in DOMAIN df :
        i < j /\ df[i].open_time = df[j].open_time /\ df[i].symbol = df[j].symbol

----------------------------------------------------------------------------
(* align_time_series_fast                                                  *)

AlignRows == [open_time : Times, symbol : Symbols, v : Cells]
FillMethods == {"ffill", "none"}
fill_value == <<0>>

\* df_indexed.reindex(idx) at one label: the value of the row carrying the
\* label, missing when no row carries it (labels are unique when reindex runs).
ReindexCell(df, t, s) ==
    IF \E i \in DOMAIN df : df[i].open_time = t /\ df[i].symbol = s
    THEN df[CHOOSE i \in DOMAIN df : df[i].open_time = t /\ df[i].symbol = s].v
    ELSE NaN

\* groupby(level='symbol').ffill(): within symbol s, walking the rows in the
\* order of idx (all_times, i.e. first appearance), a missing cell takes the
\* last non-missing cell before it.
RECURSIVE GroupFfill(_, _, _, _)
GroupFfill(df, all_times, i, s) ==
    IF i = 0 THEN NaN
    ELSE LET c == ReindexCell(df, all_times[i], s)
         IN IF c # NaN THEN c ELSE GroupFfill(df, all_times, i - 1, s)

fillna(c, value) == IF c = NaN THEN value ELSE c

\* The cell of the aligned frame at position i of all_times for symbol s.
AlignedCell(df, all_times, i, s, fill_method) ==
    fillna(IF fill_method = "ffill"
           THEN GroupFfill(df, all_times, i, s)
           ELSE ReindexCell(df, all_times[i], s),
           fill_value)

\* The returned frame: one row per label of idx, sorted by (symbol, open_time).
AlignedPanel(df, fill_method) ==
    LET all_times   == unique(Column(df, "open_time"))
        all_symbols == unique(Column(df, "symbol"))
        syms        == SortedSeq(Range(all_symbols))
        tms         == SortedSeq(Range(all_times))
        pos(t)      == CHOOSE i \in DOMAIN all_times : all_times[i] = t
        nT          == Len(tms)
    IN [k \in 1..(Len(syms) * nT) |->
          LET s == syms[((k - 1) \div nT) + 1]
              t == tms[((k - 1) % nT) + 1]
          IN [open_time |-> t, symbol |-> s,
              v |-> AlignedCell(df, all_times, pos(t), s, fill_method)]]

\* The whole call: reindex raises on a non-unique index, otherwise the panel.
align_time_series_fast(df, fill_method) ==
    IF HasDuplicateKeys(df)
    THEN [kind |-> "ValueError", fill_method |-> fill_method, panel |-> <<>>]
    ELSE [kind |-> "panel", fill_method |-> fill_method,
          panel |-> AlignedPanel(df, fill_method)]

NoResult == [kind |-> "none", fill_method |-> "none", panel |-> <<>>]

\* The caller appends a row to the table it will align.
AlignAddRow ==
    /\ Len(alignDf) < MaxAlignRows
    /\ \E r \in AlignRows : alignDf' = Append(alignDf, r)
    /\ alignRes' = NoResult
    /\ UNCHANGED <<scalerVars, pivotVars, modelVars>>

\* A call of align_time_series_fast on the table.
Align ==
    /\ \E m \in FillMethods : alignRes' = align_time_series_fast(alignDf, m)
    /\ UNCHANGED <<alignDf, scalerVars, pivotVars, modelVars>>

----------------------------------------------------------------------------
(* Floats of the scaler: exact rationals plus the IEEE specials.           *)

MaxFitRows == 2
MaxXformRows == 2
ScalerMaxValue == 1

Abs(n) == IF n < 0 THEN -n ELSE n
Sgn(n) == IF n < 0 THEN -1 ELSE IF n > 0 THEN 1 ELSE 0

RECURSIVE GCD(_, _)
GCD(a, b) == IF b = 0 THEN a ELSE GCD(b, a % b)

fNaN == <<0, 0>>
Num(n) == <<n, 1>>
IsNaN(a) == a = fNaN
IsInf(a) == a[2] = 0 /\ a[1] # 0
IsFinite(a) == a[2] > 0
IsZero(a) == a[2] > 0 /\ a[1] = 0

\* n/d with d # 0 in lowest terms, the sign on the numerator.
Norm(n, d) ==
    LET g == GCD(Abs(n), Abs(d))
    IN <<(Sgn(d) * n) \div g, Abs(d) \div g>>

fAdd(a, b) ==
    IF IsNaN(a) \/ IsNaN(b) THEN fNaN
    ELSE IF IsInf(a) /\ IsInf(b) THEN (IF a = b THEN a ELSE fNaN)
    ELSE IF IsInf(a) THEN a
    ELSE IF IsInf(b) THEN b
    ELSE Norm(a[1] * b[2] + b[1] * a[2], a[2] * b[2])

fNeg(a) == <<-a[1], a[2]>>
fSub(a, b) == fAdd(a, fNeg(b))

fMul(a, b) ==
    IF IsNaN(a) \/ IsNaN(b) THEN fNaN
    ELSE IF IsInf(a) \/ IsInf(b) THEN <<Sgn(a[1]) * Sgn(b[1]), 0>>
    ELSE Norm(a[1] * b[1], a[2] * b[2])

fDiv(a, b) ==
    IF IsNaN(a) \/ IsNaN(b) THEN fNaN
    ELSE IF IsInf(b) THEN (IF IsInf(a) THEN fNaN ELSE Num(0))
    ELSE IF IsZero(b) THEN <<Sgn(a[1]), 0>>
    ELSE IF IsInf(a) THEN <<Sgn(a[1]) * Sgn(b[1]), 0>>
    ELSE Norm(a[1] * b[2], a[2] * b[1])

fLeq(a, b) == a[1] * b[2] <= b[1] * a[2]

\* DataFrame.fillna / replace on one float.
ffillna(a, value) == IF IsNaN(a) THEN value ELSE a
freplace(a, old, new) == IF a = old THEN new ELSE a

\* min / max of a group's column, NaN skipped; NaN when nothing is left.
fMin(S) ==
    LET F == {a \in S : ~IsNaN(a)}
    IN IF F = {} THEN fNaN ELSE CHOOSE a \in F : \A b \in F : fLeq(a, b)
fMax(S) ==
    LET F == {a \in S : ~IsNaN(a)}
    IN IF F = {} THEN fNaN ELSE CHOOSE a \in F : \A b \in F : fLeq(b, a)

\* The tables of at most n rows drawn from Rows.
Tables(Rows, n) == UNION {[1..k -> Rows] : k \in 0..n}

----------------------------------------------------------------------------
(* GroupMinMaxScaler                                                       *)

ScalerCells == {fNaN} \cup {Num(v) : v \in 0..ScalerMaxValue}
ScalerRows == [symbol : Symbols, v : ScalerCells]
FeatureRanges == {<<-1, 1>>, <<0, 1>>}
NoStats == [g \in {} |-> fNaN]

\* __init__: the range fields; the statistics are set by fit.
GroupMinMaxScaler(feature_range) ==
    [feature_min  |-> Num(feature_range[1]),
     feature_max  |-> Num(feature_range[2]),
     feature_span |-> fSub(Num(feature_range[2]), Num(feature_range[1])),
     fitted       |-> FALSE,
     mins         |-> NoStats,
     maxs         |-> NoStats,
     ranges       |-> NoStats]

\* df.groupby(group_by)[target].min(): one entry per group key of df.
GroupStat(df, agg(_)) ==
    [g \in {df[i].symbol : i \in DOMAIN df} |->
        agg({df[i].v : i \in {j \in DOMAIN df : df[j].symbol = g}})]

fit(self, df) ==
    LET mn == GroupStat(df, fMin)
        mx == GroupStat(df, fMax)
    IN [self EXCEPT !.fitted = TRUE,
                    !.mins   = mn,
                    !.maxs   = mx,
                    !.ranges = [g \in DOMAIN mn |-> fSub(mx[g], mn[g])]]

\* df[[group_by]].merge(stat, left_on=group_by, right_index=True, how='left')
\* .fillna(default): per row of df, the group's statistic, or the default
\* where the group has none.
MergeStat(df, stat, default) ==
    [i \in DOMAIN df |->
        ffillna(IF df[i].symbol \in DOMAIN stat THEN stat[df[i].symbol] ELSE fNaN,
                default)]

\* (data - mins) / ranges.replace(0, nan) * span + feature_min, NaN -> feature_min
ScaledVals_NoZeroGuard(self, x, mn, rg) ==
    ffillna(fAdd(fMul(fDiv(fSub(x, mn), rg), self.feature_span),
                 self.feature_min),
            self.feature_min)

ScaledVals(self, x, mn, rg) ==
    ffillna(fAdd(fMul(fDiv(fSub(x, mn), freplace(rg, Num(0), fNaN)),
                      self.feature_span),
                 self.feature_min),
            self.feature_min)

\* transform: [self, df, scaled] after the call (self and df as the call
\* leaves them, scaled the returned copy).
transform_Refit(self, df) ==
    LET refit  == fit(self, df)
        mins   == MergeStat(df, refit.mins, refit.feature_min)
        ranges == MergeStat(df, refit.ranges, refit.feature_span)
    IN [self |-> refit, df |-> df,
        scaled |-> [i \in DOMAIN df |->
                      [df[i] EXCEPT !.v = ScaledVals(refit, df[i].v, mins[i], ranges[i])]]]

RangesDefault_Zero(self) == Num(0)

\* The statistic an unmatched group gets in the range lookup.
RangesDefault(self) == self.feature_span

transform(self, df) ==
    LET mins   == MergeStat(df, self.mins, self.feature_min)
        ranges == MergeStat(df, self.ranges, RangesDefault(self))
    IN [self |-> self, df |-> df,
        scaled |-> [i \in DOMAIN df |->
                      [df[i] EXCEPT !.v = ScaledVals(self, df[i].v, mins[i], ranges[i])]]]

NoTable == <<>>

\* scaler.fit(df); the caller holds no transform result.
Fit ==
    /\ xformArg = NoTable
    /\ \E df \in Tables(ScalerRows, MaxFitRows) :
          /\ scaler' = fit(scaler, df)
          /\ scalerHist' = [groups |-> {df[i].symbol : i \in DOMAIN df},
                            mins   |-> scaler'.mins,
                            ranges |-> scaler'.ranges]
    /\ UNCHANGED <<xformIn, xformArg, xformOut>>
    /\ UNCHANGED <<alignVars, pivotVars, modelVars>>

\* scaler.transform(df) on a fitted scaler
Transform ==
    /\ scaler.fitted
    /\ xformArg = NoTable
    /\ \E df \in Tables(ScalerRows, MaxXformRows) \ {<<>>} :
          LET r == transform(scaler, df)
          IN /\ scaler' = r.self
             /\ xformIn' = r.df
             /\ xformArg' = df
             /\ xformOut' = r.scaled
    /\ UNCHANGED scalerHist
    /\ UNCHANGED <<alignVars, pivotVars, modelVars>>

\* The caller is done with the table it transformed and with the result.
Discard ==
    /\ xformArg # NoTable
    /\ xformIn' = NoTable
    /\ xformArg' = NoTable
    /\ xformOut' = NoTable
    /\ UNCHANGED <<scaler, scalerHist>>
    /\ UNCHANGED <<alignVars, pivotVars, modelVars>>

----------------------------------------------------------------------------
(* pivot_features_and_costs                                                *)

MaxPivotRows == 2

y_col == "y"
x_cols == <<"x1", "x2">>
PivotRows == [open_time : Times, symbol : Symbols, y : Cells, x1 : Cells, x2 : Cells]

\* GroupBy.first() of column c over the rows keyed (t, s): the first
\* non-missing value in input order, missing when every value is missing.
first(df, c, t, s) ==
    LET I == {i \in DOMAIN df :
                 df[i].open_time = t /\ df[i].symbol = s /\ df[i][c] # NaN}
    IN IF I = {} THEN NaN ELSE df[Min(I)][c]

\* df.pivot_table(values=c, index="open_time", columns="symbol",
\* aggfunc="first") with the default dropna=True: the keys whose aggregate is
\* missing are dropped before unstacking, so the index holds the times, and
\* the columns the symbols, that keep a key; both come out sorted.
pivot_table(df, c) ==
    LET kept == {k \in Times \X Symbols : first(df, c, k[1], k[2]) # NaN}
    IN [index   |-> SortedSeq({k[1] : k \in kept}),
        columns |-> SortedSeq({k[2] : k \in kept}),
        cell    |-> [k \in kept |-> first(df, c, k[1], k[2])]]

\* .values of a pivot after reindex(columns=columns).fillna(0): the matrix
\* over the pivot's own index and the given columns.
PivotValues(pv, columns) ==
    [r \in 1..Len(pv.index) |->
        [n \in 1..Len(columns) |->
            LET k == <<pv.index[r], columns[n]>>
            IN IF k \in DOMAIN pv.cell THEN pv.cell[k] ELSE <<0>>]]

\* mat.sort_index().reindex(columns=unique_symbols).fillna(0).values
FeatureMat(df, x, unique_times, unique_symbols) ==
    PivotValues(pivot_table(df, x), unique_symbols)

\* The whole call.  np.stack raises unless every matrix has the same shape.
pivot_features_and_costs(df) ==
    LET cost_pivot     == pivot_table(df, y_col)
        unique_times   == cost_pivot.index
        unique_symbols == cost_pivot.columns
        costs          == PivotValues(cost_pivot, unique_symbols)
        mats           == [k \in DOMAIN x_cols |->
                             FeatureMat(df, x_cols[k], unique_times, unique_symbols)]
        warned         == HasDuplicateKeys(df)
    IN IF \E j, k \in DOMAIN mats : Len(mats[j]) # Len(mats[k])
       THEN [kind |-> "ValueError", warned |-> warned, features |-> <<>>,
             costs |-> <<>>, times |-> <<>>, symbols |-> <<>>]
       ELSE [kind |-> "bundle", warned |-> warned,
             features |-> [t \in 1..Len(mats[1]) |->
                             [n \in 1..Len(unique_symbols) |->
                                 [k \in DOMAIN x_cols |-> mats[k][t][n]]]],
             costs |-> costs, times |-> unique_times, symbols |-> unique_symbols]

NoBundle == [kind |-> "none", warned |-> FALSE, features |-> <<>>,
             costs |-> <<>>, times |-> <<>>, symbols |-> <<>>]

\* The caller appends a row to the table it will pivot.
PivotAddRow ==
    /\ Len(pivotDf) < MaxPivotRows
    /\ \E r \in PivotRows : pivotDf' = Append(pivotDf, r)
    /\ pivotRes' = NoBundle
    /\ UNCHANGED <<alignVars, scalerVars, modelVars>>

\* A call of pivot_features_and_costs on the table.
Pivot ==
    /\ pivotRes' = pivot_features_and_costs(pivotDf)
    /\ UNCHANGED <<pivotDf, alignVars, scalerVars, modelVars>>


----------------------------------------------------------------------------
(* optGrbModel: the Gurobi session                                         *)
(*                                                                         *)
(* A session (gp.Model) holds integer variables with bounds, named linear  *)
(* constraints and a linear objective to minimise (modelSense is read once *)
(* by __init__ and used by none of the methods below).  A pending change   *)
(* is taken as applied: every method below that reads the session calls    *)
(* update() first.  The solver is a function of the session's content; on  *)
(* ties it returns the lexicographically least optimal point.  The window  *)
(* holds a point of every feasible subsystem of the sessions built here    *)
(* (coefficients 0/1, right-hand sides and bounds in 0..1, <= 3 variables).*)

MaxObjs == 2        \* optGrbModel instances alive at once

XVars == <<1, 2>>    \* the decision variables x of a built model, in order
AuxCounts == {0, 1}  \* how many further variables a built session may hold
Window == -2..2      \* the values the solver searches per variable

RECURSIVE Dot(_, _, _)
Dot(a, b, n) == IF n = 0 THEN 0 ELSE a[n] * b[n] + Dot(a, b, n - 1)

NVars(sess) == Len(sess.vars)
Assignments(sess) == [1..NVars(sess) -> Window]

SatConstr(p, c) ==
    LET lhs == Dot(c.coefs, p, Len(p))
    IN IF c.sense = "=" THEN lhs = c.rhs ELSE lhs <= c.rhs

\* The parts of a session an infeasibility can rest on: constraint i, and the
\* lower and the upper bound of variable j.
Elements(sess) ==
    {<<"constr", i>> : i \in DOMAIN sess.constrs}
        \cup {<<"lb", j>> : j \in DOMAIN sess.vars}
        \cup {<<"ub", j>> : j \in DOMAIN sess.vars}

SatElement(sess, p, e) ==
    CASE e[1] = "constr" -> SatConstr(p, sess.constrs[e[2]])
      [] e[1] = "lb"     -> sess.vars[e[2]].lb <= p[e[2]]
      [] e[1] = "ub"     -> p[e[2]] <= sess.vars[e[2]].ub

\* The assignments within every variable's bounds.
Box(sess) ==
    {p \in Assignments(sess) :
        \A j \in DOMAIN sess.vars : sess.vars[j].lb <= p[j] /\ p[j] <= sess.vars[j].ub}

\* The feasible points of the session.
FeasiblePoints(sess) ==
    {p \in Box(sess) : \A i \in DOMAIN sess.constrs : SatConstr(p, sess.constrs[i])}

Feasible(sess) == FeasiblePoints(sess) # {}

\* computeIIS(): the irreducible infeasible subsystems the solver may report,
\* each an infeasible set of elements every proper subset of which is
\* feasible.  A set of elements is infeasible exactly when every assignment
\* violates one of them, i.e. when it meets the violated set of every
\* assignment (the least such sets suffice).
IISs(sess) ==
    LET E       == Elements(sess)
        viol(p) == {e \in E : ~SatElement(sess, p, e)}
        Fam     == {viol(p) : p \in Assignments(sess)}
        MinFam  == {V \in Fam : \A U \in Fam : U \subseteq V => U = V}
        infeasible(S) == \A V \in MinFam : S \cap V # {}
    IN {S \in SUBSET E : infeasible(S) /\ \A e \in S : ~infeasible(S \ {e})}

\* Position of a point in the lexicographic order of its coordinates.
RECURSIVE LexKey(_, _)
LexKey(p, n) ==
    IF n = 0 THEN 0
    ELSE LexKey(p, n - 1) * Cardinality(Window) + (p[n] - Min(Window))

\* optimize() on a feasible session: the optimal point.
Optimum(sess) ==
    LET n      == NVars(sess)
        F      == FeasiblePoints(sess)
        val(p) == Dot(sess.obj, p, n)
        least  == Min({val(p) : p \in F})
        best   == {p \in F : val(p) = least}
        key    == Min({LexKey(p, n) : p \in best})
    IN CHOOSE p \in best : LexKey(p, n) = key

\* The terminal statuses optimize() may report.  Every variable is bounded,
\* so a feasible session has an optimum; for an infeasible one presolve may
\* stop at "infeasible or unbounded" (DualReductions is left at its default).
Statuses(sess) ==
    IF Feasible(sess) THEN {"OPTIMAL"} ELSE {"INFEASIBLE", "INF_OR_UNBD"}

\* Model.copy(): a new session with the same variables, constraints, objective.
SessionCopy(sess) == sess

----------------------------------------------------------------------------
(* optGrbModel: the Python object                                          *)

CostValues == {-1}
CoefValues == {0, 1}
RhsValues == {0}
VarBounds == {[lb |-> 0, ub |-> 1], [lb |-> 1, ub |-> 0]}

\* The vectors a caller may pass: every length from 1 to the largest number
\* of variables a session holds.
Vectors(Values) == UNION {[1..k -> Values] : k \in 1..(Len(XVars) + Max(AuxCounts))}

\* num_cost: len(self.x)
num_cost(self) == Len(self.x)

\* What _getModel hands to __init__: a session with the decision variables
\* x, aux further variables after them, optionally the budget constraint
\* sum(x) = 1, and a zero objective.
BuiltSession(aux, bnd, budget) ==
    LET n == Len(XVars) + aux
    IN [vars    |-> [j \in 1..n |-> IF j \in Range(XVars) THEN bnd ELSE [lb |-> 0, ub |-> 1]],
        constrs |-> IF budget
                    THEN <<[coefs |-> [j \in 1..n |-> IF j \in Range(XVars) THEN 1 ELSE 0],
                            sense |-> "=", rhs |-> 1]>>
                    ELSE <<>>,
        obj     |-> [j \in 1..n |-> 0]]

\* setObj's objective: c[i] on the i-th variable of x, 0 elsewhere.
Objective(self, sess, c) ==
    [j \in 1..NVars(sess) |->
        IF \E i \in DOMAIN self.x : self.x[i] = j
        THEN c[CHOOSE i \in DOMAIN self.x : self.x[i] = j]
        ELSE 0]

\* setObj(c): the outcome and the session afterwards.
setObj(self, sess, c) ==
    IF Len(c) # num_cost(self)
    THEN [kind |-> "ValueError", sess |-> sess]
    ELSE [kind |-> "ok", sess |-> [sess EXCEPT !.obj = Objective(self, sess, c)]]

NoSolve == [kind |-> "none", sol |-> <<>>, obj |-> 0, iis |-> {}]

\* solve() under the status and the IIS the solver reports: the infeasible
\* branch prints the IIS constraints and raises; any other status goes on to
\* read the solution, which only an optimal session holds.
solve(self, sess, status, iis) ==
    IF status = "INFEASIBLE"
    THEN [kind |-> "RuntimeError", sol |-> <<>>, obj |-> 0,
          iis |-> {e[2] : e \in {f \in iis : f[1] = "constr"}}]
    ELSE IF status = "OPTIMAL"
    THEN LET p == Optimum(sess)
         IN [kind |-> "ok", sol |-> [i \in DOMAIN self.x |-> p[self.x[i]]],
             obj |-> Dot(sess.obj, p, NVars(sess)), iis |-> {}]
    ELSE [kind |-> "AttributeError", sol |-> <<>>, obj |-> 0, iis |-> {}]

\* copy(): the clone and the heap of sessions afterwards.  The clone is a
\* shallow copy of self whose _model is a new session, the copy of self's,
\* and whose x is rebuilt from getVars(): every variable of the session, in
\* the session's order.
copy_SharedSession(self, heap) ==
    [new_model |-> [model |-> self.model,
                    x |-> [j \in 1..NVars(heap[self.model]) |-> j]],
     sessions  |-> heap]

copy(self, heap) ==
    [new_model |-> [model |-> Len(heap) + 1,
                    x |-> [j \in 1..NVars(heap[self.model]) |-> j]],
     sessions  |-> Append(heap, SessionCopy(heap[self.model]))]

\* The constraint addConstr builds: coefs[i] on the i-th variable of the
\* clone's x, <= rhs.
NewConstr(new_model, sess, coefs, rhs) ==
    [coefs |-> [j \in 1..NVars(sess) |->
                  IF \E i \in DOMAIN new_model.x : new_model.x[i] = j
                  THEN coefs[CHOOSE i \in DOMAIN new_model.x : new_model.x[i] = j]
                  ELSE 0],
     sense |-> "<=", rhs |-> rhs]

\* addConstr(coefs, rhs): "ValueError" on a length mismatch; "IndexError"
\* when the clone's x is longer than coefs (coefs[i] runs past its end);
\* otherwise the clone, with the constraint added to the clone's session.
addConstr(self, heap, coefs, rhs) ==
    IF Len(coefs) # num_cost(self)
    THEN [kind |-> "ValueError", new_model |-> self, sessions |-> heap]
    ELSE LET c  == copy(self, heap)
             nm == c.new_model
         IN IF Len(nm.x) > Len(coefs)
            THEN [kind |-> "IndexError", new_model |-> self, sessions |-> heap]
            ELSE [kind |-> "ok", new_model |-> nm,
                  sessions |-> [c.sessions EXCEPT ![nm.model].constrs =
                                  Append(@, NewConstr(nm, c.sessions[nm.model], coefs, rhs))]]

Templates == AuxCounts \X VarBounds \X BOOLEAN

Oids == DOMAIN objs
SessOf(o) == sessions[objs[o].model]

\* A subclass instance is constructed.
Build ==
    /\ objs = <<>>
    /\ \E t \in Templates :
          /\ sessions' = <<BuiltSession(t[1], t[2], t[3])>>
          /\ objs' = <<[model |-> 1, x |-> XVars]>>
    /\ solved' = <<NoSolve>>
    /\ parent' = <<0>>
    /\ UNCHANGED <<alignVars, scalerVars, pivotVars>>

\* o.setObj(c)
SetObj ==
    \E o \in Oids, c \in Vectors(CostValues) :
        LET r == setObj(objs[o], SessOf(o), c)
        IN /\ sessions' = [sessions EXCEPT ![objs[o].model] = r.sess]
           /\ solved' = IF r.kind = "ok" THEN [solved EXCEPT ![o] = NoSolve]
                        ELSE solved
           /\ UNCHANGED <<objs, parent>>
           /\ UNCHANGED <<alignVars, scalerVars, pivotVars>>

\* o.solve()
Solve ==
    \E o \in Oids :
        \E status \in Statuses(SessOf(o)) :
            \E iis \in (IF status = "INFEASIBLE" THEN IISs(SessOf(o)) ELSE {{}}) :
                LET r == solve(objs[o], SessOf(o), status, iis)
                IN /\ solved' = [solved EXCEPT ![o] = r]
                   /\ UNCHANGED <<objs, sessions, parent>>
                   /\ UNCHANGED <<alignVars, scalerVars, pivotVars>>

\* o.copy()
Copy ==
    \E o \in Oids :
        /\ Len(objs) < MaxObjs
        /\ LET c == copy(objs[o], sessions)
           IN /\ sessions' = c.sessions
              /\ objs' = Append(objs, c.new_model)
        /\ solved' = Append(solved, NoSolve)
        /\ parent' = Append(parent, o)
        /\ UNCHANGED <<alignVars, scalerVars, pivotVars>>

\* o.addConstr(coefs, rhs)
AddConstr ==
    \E o \in Oids, coefs \in Vectors(CoefValues), rhs \in RhsValues :
        LET r == addConstr(objs[o], sessions, coefs, rhs)
        IN /\ r.kind = "ok" => Len(objs) < MaxObjs
           /\ sessions' = r.sessions
           /\ objs' = IF r.kind = "ok" THEN Append(objs, r.new_model) ELSE objs
           /\ solved' = IF r.kind = "ok" THEN Append(solved, NoSolve) ELSE solved
           /\ parent' = IF r.kind = "ok" THEN Append(parent, o) ELSE parent
           /\ UNCHANGED <<alignVars, scalerVars, pivotVars>>

----------------------------------------------------------------------------
(* Specifications: one per component, the others idle.                     *)

AlignNext == AlignAddRow \/ Align
ScalerNext == Fit \/ Transform \/ Discard
PivotNext == PivotAddRow \/ Pivot
ModelNext == Build \/ SetObj \/ Solve \/ Copy \/ AddConstr

\* The state after construction: empty tables, no result yet, a scaler built
\* from one of the feature ranges R and not yet fitted, no decision model.
Start(R) ==
    /\ alignDf = <<>>
    /\ alignRes = NoResult
    /\ scaler \in {GroupMinMaxScaler(fr) : fr \in R}
    /\ scalerHist = [groups |-> {}, mins |-> NoStats, ranges |-> NoStats]
    /\ xformIn = NoTable
    /\ xformArg = NoTable
    /\ xformOut = NoTable
    /\ pivotDf = <<>>
    /\ pivotRes = NoBundle
    /\ objs = <<>>
    /\ sessions = <<>>
    /\ solved = <<>>
    /\ parent = <<>>

Init == Start(FeatureRanges)
Next == AlignNext \/ ScalerNext \/ PivotNext \/ ModelNext
Spec == Init /\ [][Next]_vars

\* One component at a time; the scaler of the other components keeps the
\* default feature range.
DefaultRange == {<<-1, 1>>}
SpecAlign == Start(DefaultRange) /\ [][AlignNext]_vars
SpecScaler == Start(FeatureRanges) /\ [][ScalerNext]_vars
SpecPivot == Start(DefaultRange) /\ [][PivotNext]_vars
SpecModel == Start(DefaultRange) /\ [][ModelNext]_vars

----------------------------------------------------------------------------
(* Claims about align_time_series_fast (under SpecAlign)                   *)

\* The value the no-lookahead rule asks for at (t, s): the value of the
\* latest valued observation of s at a time <= t, the default when there is
\* none.
LatestObserved(df, t, s) ==
    LET I == {i \in DOMAIN df :
                 df[i].symbol = s /\ df[i].open_time <= t /\ df[i].v # NaN}
    IN IF I = {} THEN fill_value
       ELSE df[CHOOSE i \in I : \A j \in I : df[j].open_time <= df[i].open_time].v

Observed(df, t, s) == \E i \in DOMAIN df : df[i].open_time = t /\ df[i].symbol = s

\* C2: in a panel returned under forward fill, every cell (t, s) that no
\* input row carries holds the value of the latest observation of s at a
\* time <= t, or the default when s has none, whatever the order of the rows.
C2_AlignNoLookahead ==
    (alignRes.kind = "panel" /\ alignRes.fill_method = "ffill") =>
        \A k \in DOMAIN alignRes.panel :
            LET r == alignRes.panel[k]
            IN ~Observed(alignDf, r.open_time, r.symbol) =>
                   r.v = LatestObserved(alignDf, r.open_time, r.symbol)

\* C7: every call returns a panel (it never fails, duplicates included) with
\* exactly one row per pair of an observed time and an observed symbol, and
\* no missing cell.
C7_AlignCompleteGrid ==
    alignRes.kind # "none" =>
        LET T == {alignDf[i].open_time : i \in DOMAIN alignDf}
            S == {alignDf[i].symbol : i \in DOMAIN alignDf}
            P == alignRes.panel
        IN /\ alignRes.kind = "panel"
           /\ Len(P) = Cardinality(T) * Cardinality(S)
           /\ \A t \in T, sy \in S :
                 Cardinality({k \in DOMAIN P :
                                 P[k].open_time = t /\ P[k].symbol = sy}) = 1
           /\ \A k \in DOMAIN P : P[k].v # NaN

----------------------------------------------------------------------------
(* Claims about GroupMinMaxScaler (under SpecScaler)                       *)

Transformed == xformArg # NoTable

\* The scaler as fit left it, rebuilt from the recorded statistics.
FrozenScaler == [scaler EXCEPT !.mins = scalerHist.mins, !.ranges = scalerHist.ranges]

\* C4 as stated: a transformed row whose group was absent from the fit data
\* comes out as feature_min, whatever its value.
C4_UnseenGroupGivesFeatureMin ==
    \A i \in DOMAIN xformOut :
        xformArg[i].symbol \notin scalerHist.groups =>
            xformOut[i].v = scaler.feature_min

\* C4 as amended: a transformed row whose group was absent from the fit data
\* comes out with its own value (x - feature_min) / span * span + feature_min
\* = x, and as feature_min only when its value is missing.
C4_UnseenGroupPassesThrough ==
    \A i \in DOMAIN xformOut :
        xformArg[i].symbol \notin scalerHist.groups =>
            xformOut[i].v = IF IsNaN(xformArg[i].v) THEN scaler.feature_min
                            ELSE xformArg[i].v

C4_Witness ==
    \E i \in DOMAIN xformOut :
        /\ xformArg[i].symbol \notin scalerHist.groups
        /\ scalerHist.groups # {}
        /\ ~IsNaN(xformArg[i].v)
        /\ xformArg[i].v # scaler.feature_min
        /\ xformOut[i].v = xformArg[i].v

\* C9: once fitted, transform calls leave the stored statistics as fit set
\* them and the caller's table as it was passed, and the output of a row is
\* what transforming that row alone under the fit-time statistics gives: it
\* depends on no other row and on no earlier transform call.
C9_TransformLeavesFitFrozen ==
    /\ scaler.fitted =>
          scaler.mins = scalerHist.mins /\ scaler.ranges = scalerHist.ranges
    /\ Transformed =>
          /\ xformIn = xformArg
          /\ DOMAIN xformOut = DOMAIN xformArg
          /\ \A i \in DOMAIN xformOut :
                xformOut[i] = transform(FrozenScaler, <<xformArg[i]>>).scaled[1]

C9_Witness ==
    /\ Transformed
    /\ Len(xformArg) >= 2
    /\ \E i, j \in DOMAIN xformArg :
          /\ xformArg[i].symbol \notin scalerHist.groups
          /\ xformArg[j].symbol \in DOMAIN scalerHist.ranges
          /\ ~IsNaN(scalerHist.ranges[xformArg[j].symbol])
          /\ ~IsZero(scalerHist.ranges[xformArg[j].symbol])
          /\ xformOut[j].v # scaler.feature_min

\* C10: a row of a group whose fit-time range is 0 comes out as feature_min,
\* whatever its value at transform time, never as NaN or an infinity.
C10_ConstantColumnGivesFeatureMin ==
    \A i \in DOMAIN xformOut :
        LET g == xformArg[i].symbol
        IN (g \in DOMAIN scalerHist.ranges /\ IsZero(scalerHist.ranges[g])) =>
               xformOut[i].v = scaler.feature_min

C10_Witness ==
    \E i \in DOMAIN xformOut :
        LET g == xformArg[i].symbol
        IN /\ g \in DOMAIN scalerHist.ranges
           /\ IsZero(scalerHist.ranges[g])
           /\ ~IsNaN(xformArg[i].v)
           /\ xformArg[i].v # scalerHist.mins[g]
           /\ xformOut[i].v = scaler.feature_min

----------------------------------------------------------------------------
(* Claims about pivot_features_and_costs (under SpecPivot)                 *)

Position(seq, v) == CHOOSE i \in DOMAIN seq : seq[i] = v

\* The value of column c in the first input row keyed (t, s), missing when
\* that row's value is missing or no row carries the key.
FirstRowValue(df, c, t, s) ==
    LET I == {i \in DOMAIN df : df[i].open_time = t /\ df[i].symbol = s}
    IN IF I = {} THEN NaN ELSE df[Min(I)][c]

\* C3: every call returns a bundle whose cost matrix and feature matrices
\* share the row index times (strictly increasing) and the column index
\* symbols: costs[t][n] and features[t][n][k] are the values of the input
\* rows keyed (times[t], symbols[n]), 0 where the input has none.
C3_PivotIndexAligned ==
    pivotRes.kind # "none" =>
        /\ pivotRes.kind = "bundle"
        /\ \A t \in 1..(Len(pivotRes.times) - 1) : pivotRes.times[t] < pivotRes.times[t + 1]
        /\ Len(pivotRes.costs) = Len(pivotRes.times)
        /\ Len(pivotRes.features) = Len(pivotRes.times)
        /\ \A t \in DOMAIN pivotRes.times, n \in DOMAIN pivotRes.symbols :
              /\ pivotRes.costs[t][n] =
                    fillna(first(pivotDf, y_col, pivotRes.times[t], pivotRes.symbols[n]), <<0>>)
              /\ \A k \in DOMAIN x_cols :
                    pivotRes.features[t][n][k] =
                        fillna(first(pivotDf, x_cols[k], pivotRes.times[t],
                                     pivotRes.symbols[n]), <<0>>)

\* C6: on a table with a repeated (time, symbol) key the call warns, completes
\* and returns the bundle, and the cells of the cost matrix and of every
\* feature matrix at a repeated key hold the value of the first row carrying
\* the key in input order (0, the fill of a missing cell, when that value is
\* missing).
C6_PivotDuplicateFirstRowWins ==
    (pivotRes.kind # "none" /\ HasDuplicateKeys(pivotDf)) =>
        /\ pivotRes.kind = "bundle"
        /\ pivotRes.warned
        /\ \A i, j \in DOMAIN pivotDf :
              (/\ i < j
               /\ pivotDf[i].open_time = pivotDf[j].open_time
               /\ pivotDf[i].symbol = pivotDf[j].symbol
               /\ pivotDf[i].open_time \in Range(pivotRes.times)
               /\ pivotDf[i].symbol \in Range(pivotRes.symbols)) =>
                  LET t  == pivotDf[i].open_time
                      sy == pivotDf[i].symbol
                      r  == Position(pivotRes.times, t)
                      n  == Position(pivotRes.symbols, sy)
                  IN /\ pivotRes.costs[r][n] =
                           fillna(FirstRowValue(pivotDf, y_col, t, sy), <<0>>)
                     /\ r \in DOMAIN pivotRes.features
                     /\ \A k \in DOMAIN x_cols :
                           pivotRes.features[r][n][k] =
                               fillna(FirstRowValue(pivotDf, x_cols[k], t, sy), <<0>>)

----------------------------------------------------------------------------
(* Claims about optGrbModel (under SpecModel)                              *)

\* C1: whatever is done to the clones (addConstr, setObj, solve), an object
\* solved earlier and not re-objectived since still solves to the recorded
\* (solution, objective): its session's constraints and objective are as
\* they were; one that was infeasible is still infeasible.
C1_AddConstrKeepsReceiver ==
    \A o \in Oids :
        /\ solved[o].kind = "ok" =>
              /\ Feasible(SessOf(o))
              /\ solve(objs[o], SessOf(o), "OPTIMAL", {}) = solved[o]
        /\ solved[o].kind \in {"RuntimeError", "AttributeError"} =>
              ~Feasible(SessOf(o))

C1_Witness ==
    \E o, ch \in Oids :
        /\ parent[ch] = o
        /\ Len(SessOf(ch).constrs) > Len(SessOf(o).constrs)
        /\ solved[o].kind = "ok"
        /\ solved[ch].kind = "ok"
        /\ solved[ch].sol # solved[o].sol
        /\ SessOf(ch).obj # SessOf(o).obj

\* C5: a solve of a session with no feasible point raises the infeasibility
\* error with a non-empty set of the constraints of an irreducible
\* infeasible subsystem.
C5_InfeasibleSolveNamesConstraints ==
    \A o \in Oids :
        (solved[o].kind # "none" /\ ~Feasible(SessOf(o))) =>
            /\ solved[o].kind = "RuntimeError"
            /\ solved[o].iis # {}
            /\ \E S \in IISs(SessOf(o)) :
                  solved[o].iis = {e[2] : e \in {f \in S : f[1] = "constr"}}

\* C8: a clone's x denotes the decision variables of the object it was
\* cloned from, in the same order (so num_cost agrees), and addConstr with a
\* vector of num_cost coefficients returns a clone.
C8_CloneKeepsDecisionVars ==
    \A o \in Oids :
        /\ parent[o] # 0 => objs[o].x = objs[parent[o]].x
        /\ \A coefs \in Vectors(CoefValues), rhs \in RhsValues :
              Len(coefs) = num_cost(objs[o]) =>
                  addConstr(objs[o], sessions, coefs, rhs).kind = "ok"


====
